---- MODULE Spec2Model ----
(***************************************************************************)
(* ElectronsFiller (Producer/src/ElectronsFiller.cc): per-event selection, *)
(* isolation correction, photon cross-match, trigger match, pt ranking,    *)
(* identity maps and the deferred supercluster reference resolution.       *)
(*                                                                         *)
(* Units: pt in GeV, eta / phi in hundredths, isolation sums and effective *)
(* areas in integer units.  An optional value is <<>> (never written) or   *)
(* <<v>> (written with v).  An input electron's identity is its index in   *)
(* the input collection; an output record's identity is its position in    *)
(* the output array (the address of the array element).                    *)
(***************************************************************************)
EXTENDS Integers, Sequences, FiniteSets, TLC

VARIABLES cfg, ev, pc, filled, outElectrons, eleEleMap, scEleMap, scMap

vars == <<cfg, ev, pc, filled, outElectrons, eleEleMap, scEleMap, scMap>>

(* ------------------------------ bounds --------------------------------- *)

MaxEl == 3

MaxPh == 2

MaxTrig == 2

nElectronHLTObjects == 2

(* ------------------------------ helpers -------------------------------- *)

None == <<>>

Some(v) == <<v>>

Abs(x) == IF x < 0 THEN 0 - x ELSE x

SeqsUpTo(S, n) == UNION {[1..k -> S] : k \in 0..n}

EmptyMap == [x \in {} |-> 0]

Range(f) == {f[x] : x \in DOMAIN f}

(* --------------------------- configuration ----------------------------- *)

\* minPt_ (default -1.) and maxEta_ (default 10.), one cut tightened at a time
Cuts == {[minPt |-> -1, maxEta |-> 1000],
         [minPt |-> 50, maxEta |-> 1000],
         [minPt |-> -1, maxEta |-> 100]}

\* The configuration with every optional input present and no trigger use.
DefaultConfig ==
  [cuts |-> [minPt |-> -1, maxEta |-> 1000], ecalIsoToken |-> TRUE,
   hcalIsoToken |-> TRUE, useTrigger |-> FALSE]

\* The configurations a job is constructed with: the default, and the default
\* with the cuts, the optional side maps or the trigger usage changed.
Configs ==
  {[DefaultConfig EXCEPT !.cuts = k] : k \in Cuts}
  \cup {[DefaultConfig EXCEPT !.ecalIsoToken = a, !.hcalIsoToken = b] : a, b \in BOOLEAN}
  \cup {[DefaultConfig EXCEPT !.useTrigger = TRUE]}

\* An effective-area table: ascending |eta| upper bounds with coefficients.
combIsoEA == <<[max |-> 150, ea |-> 1], [max |-> 300, ea |-> 2]>>

ecalIsoEA == <<[max |-> 150, ea |-> 3], [max |-> 300, ea |-> 4]>>

hcalIsoEA == <<[max |-> 150, ea |-> 5], [max |-> 300, ea |-> 6]>>

phCHIsoEA == <<[max |-> 150, ea |-> 7], [max |-> 300, ea |-> 8]>>

phNHIsoEA == <<[max |-> 150, ea |-> 9], [max |-> 300, ea |-> 10]>>

phPhIsoEA == <<[max |-> 150, ea |-> 11], [max |-> 300, ea |-> 12]>>

\* Coefficient of the first bin whose upper bound exceeds the query; the
\* last bin covers all remaining values.
getEffectiveArea(table, absEta) ==
  LET hits == {k \in 1..Len(table) : absEta < table[k].max}
  IN  IF hits = {} THEN table[Len(table)].ea
      ELSE table[CHOOSE k \in hits : \A m \in hits : k <= m].ea

(* ------------------------------ inputs --------------------------------- *)

Clusters == {1, 2}

\* sc.eta() of each input supercluster
scEtaOf(c) == IF c = 1 THEN -100 ELSE 200

ElectronKinds ==
  { [pt |-> 50, eta |-> 100,  phi |-> 300, veto |-> TRUE,  sc |-> 1, isPat |-> FALSE],
    [pt |-> 80, eta |-> 100,  phi |-> 300, veto |-> TRUE,  sc |-> 2, isPat |-> FALSE],
    [pt |-> 30, eta |-> 100,  phi |-> 300, veto |-> FALSE, sc |-> 2, isPat |-> FALSE],
    [pt |-> 30, eta |-> -300, phi |-> 300, veto |-> TRUE,  sc |-> 1, isPat |-> TRUE] }

PhotonKinds == [sc : Clusters]

TriggerObjectKinds ==
  { [labels |-> {1},    eta |-> 120, phi |-> 300],
    [labels |-> {2},    eta |-> 130, phi |-> 300],
    [labels |-> {1, 2}, eta |-> 120, phi |-> -310] }

\* Raw per-object input values, distinct per object and per channel.
sumChargedHadronPt(i) == 1000 * i + 10

sumNeutralHadronEt(i) == 1000 * i + 20

sumPhotonEt(i) == 1000 * i + 30

sumPUPt(i) == 1000 * i + 40

ecalPFClusterIso(i) == 1000 * i + 50

hcalPFClusterIso(i) == 1000 * i + 60

ecalIso(i) == 1000 * i + 70

hcalIso(i) == 1000 * i + 80

phCHIso(j) == 100 * j + 1

phNHIso(j) == 100 * j + 2

phPhIso(j) == 100 * j + 3

NoEvent == [electrons |-> <<>>, photons |-> <<>>, triggerObjects |-> <<>>,
            superClusters |-> <<>>, rho |-> 0, rhoCentralCalo |-> 0]

\* The supercluster collections: each cluster at most once, in any order.
SuperClusterCollections ==
  {scs \in SeqsUpTo(Clusters, Cardinality(Clusters)) :
     \A a, b \in 1..Len(scs) : a # b => scs[a] # scs[b]}

\* The events delivered to a job configured with c: the electron collection
\* varies freely, together with one of the photon collection, the trigger
\* objects (read only when useTrigger_) and the supercluster collection.
EventInputs(c) ==
  LET base(els) == [electrons |-> els, photons |-> <<>>, triggerObjects |-> <<>>,
                    superClusters |-> <<2, 1>>, rho |-> 2, rhoCentralCalo |-> 3]
  IN  UNION { {[base(els) EXCEPT !.photons = phs] : phs \in SeqsUpTo(PhotonKinds, MaxPh)}
              \cup {[base(els) EXCEPT !.triggerObjects = tos] :
                      tos \in IF c.useTrigger THEN SeqsUpTo(TriggerObjectKinds, MaxTrig)
                              ELSE {<<>>}}
              \cup {[base(els) EXCEPT !.superClusters = scs] : scs \in SuperClusterCollections}
              : els \in SeqsUpTo(ElectronKinds, MaxEl) }

(* --------------------------- output records ---------------------------- *)

\* The record create_back() appends: nothing written yet.  orig is a history
\* field, the input index of the electron the record is created for.
NewElectronRecord(i) ==
  [orig |-> i, pt |-> None, eta |-> None, phi |-> None, veto |-> None,
   chiso |-> None, nhiso |-> None, phoiso |-> None, puiso |-> None,
   isoPUOffset |-> None, ecaliso |-> None, hcaliso |-> None,
   chisoPh |-> None, nhisoPh |-> None, phisoPh |-> None,
   matchHLT |-> [iF \in 1..nElectronHLTObjects |-> FALSE],
   superCluster |-> None]

\* passesSelection with the pt cut dropping a candidate at the threshold
passesSelection_ptAtThreshold(c, el) ==
  /\ ~(el.pt <= c.cuts.minPt)
  /\ ~(Abs(el.eta) > c.cuts.maxEta)
  /\ el.veto

\* pt and eta cuts and the veto id
passesSelection(c, el) ==
  /\ ~(el.pt < c.cuts.minPt)
  /\ ~(Abs(el.eta) > c.cuts.maxEta)
  /\ el.veto

\* fillP4, the veto flag, the raw particle-flow sums and the pileup offset
fillKinematicsAndPFIso(rec, e, i) ==
  LET el == e.electrons[i]
      scEta == Abs(scEtaOf(el.sc))
  IN  [rec EXCEPT !.pt = Some(el.pt), !.eta = Some(el.eta), !.phi = Some(el.phi),
                  !.veto = Some(el.veto),
                  !.chiso = Some(sumChargedHadronPt(i)),
                  !.nhiso = Some(sumNeutralHadronEt(i)),
                  !.phoiso = Some(sumPhotonEt(i)),
                  !.puiso = Some(sumPUPt(i)),
                  !.isoPUOffset = Some(getEffectiveArea(combIsoEA, scEta) * e.rho)]

\* caloRho taking the standard density
caloRho_standard(e) == e.rho

\* the pileup density subtracted from the calorimeter-cluster sums
caloRho(e) == e.rhoCentralCalo

\* caloIsoMissing without the check of the HCAL map
caloIsoMissing_ecalOnly(c, el) ==
  IF el.isPat THEN "none"
  ELSE IF ~c.ecalIsoToken THEN "ecal"
  ELSE "none"

\* which of the two throws, if any, the calorimeter-cluster block takes
caloIsoMissing(c, el) ==
  IF el.isPat THEN "none"
  ELSE IF ~c.ecalIsoToken THEN "ecal"
  ELSE IF ~c.hcalIsoToken THEN "hcal"
  ELSE "none"

\* fillCaloIso with both maps checked before anything is written
fillCaloIso_checksFirst(rec, c, e, i) ==
  LET el == e.electrons[i]
      scEta == Abs(scEtaOf(el.sc))
      ecalOff == getEffectiveArea(ecalIsoEA, scEta) * caloRho(e)
      hcalOff == getEffectiveArea(hcalIsoEA, scEta) * caloRho(e)
  IN  IF el.isPat
      THEN [rec EXCEPT !.ecaliso = Some(ecalPFClusterIso(i) - ecalOff),
                       !.hcaliso = Some(hcalPFClusterIso(i) - hcalOff)]
      ELSE IF caloIsoMissing(c, el) # "none" THEN rec
      ELSE [rec EXCEPT !.ecaliso = Some(ecalIso(i) - ecalOff),
                       !.hcaliso = Some(hcalIso(i) - hcalOff)]

\* ecaliso / hcaliso: the pat::Electron's own values, else the side maps; a
\* throw leaves what was written before it
fillCaloIso(rec, c, e, i) ==
  LET el == e.electrons[i]
      scEta == Abs(scEtaOf(el.sc))
      ecalOff == getEffectiveArea(ecalIsoEA, scEta) * caloRho(e)
      hcalOff == getEffectiveArea(hcalIsoEA, scEta) * caloRho(e)
      missing == caloIsoMissing(c, el)
  IN  IF el.isPat
      THEN [rec EXCEPT !.ecaliso = Some(ecalPFClusterIso(i) - ecalOff),
                       !.hcaliso = Some(hcalPFClusterIso(i) - hcalOff)]
      ELSE IF missing = "ecal" THEN rec
      ELSE IF missing = "hcal"
           THEN [rec EXCEPT !.ecaliso = Some(ecalIso(i) - ecalOff)]
      ELSE [rec EXCEPT !.ecaliso = Some(ecalIso(i) - ecalOff),
                       !.hcaliso = Some(hcalIso(i) - hcalOff)]

\* The index handed to photons.refAt() while photon j is visited: iPh is
\* initialised to 0 (the first photon) and the loop never increments it.
iPhAt(j) == 1

\* The loop over the photons from photon j on: every photon on the same
\* supercluster overwrites the three sums with those of photons.refAt(iPh).
RECURSIVE photonLoop(_, _, _, _)
photonLoop(rec, e, el, j) ==
  IF j > Len(e.photons) THEN rec
  ELSE IF e.photons[j].sc = el.sc
       THEN LET scEta == Abs(scEtaOf(el.sc))
                iPh == iPhAt(j)
            IN  photonLoop(
                  [rec EXCEPT
                     !.chisoPh = Some(phCHIso(iPh) - getEffectiveArea(phCHIsoEA, scEta) * e.rho),
                     !.nhisoPh = Some(phNHIso(iPh) - getEffectiveArea(phNHIsoEA, scEta) * e.rho),
                     !.phisoPh = Some(phPhIso(iPh) - getEffectiveArea(phPhIsoEA, scEta) * e.rho)],
                  e, el, j + 1)
       ELSE photonLoop(rec, e, el, j + 1)

\* reco::deltaPhi: the difference brought into (-pi, pi]
deltaPhi(phi1, phi2) ==
  LET d == phi1 - phi2
  IN  IF d > 314 THEN d - 628 ELSE IF d <= -314 THEN d + 628 ELSE d

deltaR2(a, b) ==
  (a.eta - b.eta) * (a.eta - b.eta) + deltaPhi(a.phi, b.phi) * deltaPhi(a.phi, b.phi)

\* withinDeltaR accepting the separation 0.3 itself
withinDeltaR_inclusive(el, obj) == deltaR2(el, obj) <= 30 * 30

\* reco::deltaR(inElectron, *obj) < 0.3
withinDeltaR(el, obj) == deltaR2(el, obj) < 30 * 30

\* hltObjects[iF]: the trigger objects carrying hltFilters_[iF]
hltObjects(e, iF) == SelectSeq(e.triggerObjects, LAMBDA obj : iF \in obj.labels)

fillMatchHLT(rec, c, e, el) ==
  IF c.useTrigger
  THEN [rec EXCEPT !.matchHLT =
          [iF \in 1..nElectronHLTObjects |->
             \/ rec.matchHLT[iF]
             \/ \E k \in 1..Len(hltObjects(e, iF)) : withinDeltaR(el, hltObjects(e, iF)[k])]]
  ELSE rec

\* The body of the loop for one selected electron.
fillElectron(c, e, i) ==
  LET el == e.electrons[i]
      r1 == fillKinematicsAndPFIso(NewElectronRecord(i), e, i)
      r2 == fillCaloIso(r1, c, e, i)
  IN  IF caloIsoMissing(c, el) # "none"
      THEN [rec |-> r2, thrown |-> TRUE]
      ELSE [rec |-> fillMatchHLT(photonLoop(r2, e, el, 1), c, e, el), thrown |-> FALSE]

\* The loop over the input electrons from index i on.
RECURSIVE fillLoop(_, _, _, _, _)
fillLoop(c, e, i, out, ptrList) ==
  IF i > Len(e.electrons) THEN [out |-> out, ptrList |-> ptrList, thrown |-> FALSE]
  ELSE IF ~passesSelection(c, e.electrons[i]) THEN fillLoop(c, e, i + 1, out, ptrList)
  ELSE LET r == fillElectron(c, e, i)
       IN  IF r.thrown
           THEN [out |-> Append(out, r.rec), ptrList |-> ptrList, thrown |-> TRUE]
           ELSE fillLoop(c, e, i + 1, Append(out, r.rec), Append(ptrList, i))

(* ------------------------- ranking and maps ---------------------------- *)

\* ptGreater with the comparison reversed
ptLess(a, b) == a.pt[1] < b.pt[1]

\* panda::ptGreater
ptGreater(a, b) == a.pt[1] > b.pt[1]

\* Final position of element i under a stable sort by ptGreater.
sortRank(out, i) ==
  1 + Cardinality({j \in 1..Len(out) : ptGreater(out[j], out[i])})
    + Cardinality({j \in 1..(i - 1) :
                     ~ptGreater(out[j], out[i]) /\ ~ptGreater(out[i], out[j])})

\* outElectrons.sort(): originalIndices[p] is the pre-sort index of the
\* element that ends at position p.
sortIndices(out) ==
  [p \in 1..Len(out) |-> CHOOSE i \in 1..Len(out) : sortRank(out, i) = p]

\* The array after the sort.
sorted(out) == [p \in 1..Len(out) |-> out[sortIndices(out)[p]]]

\* originalIndex ignoring the permutation the sort returned
originalIndex_position(originalIndices, iP) == iP

\* unsigned idx(originalIndices[iP])
originalIndex(originalIndices, iP) == originalIndices[iP]

\* One direction of an ObjectMap: insert k -> v; keepFirst says whether an
\* existing key keeps its value or takes the new one.
mapInsert(m, k, v, keepFirst) ==
  IF k \in DOMAIN m
  THEN IF keepFirst THEN m ELSE [m EXCEPT ![k] = v]
  ELSE m @@ (k :> v)

\* ObjectMap::add(edm, panda): fwdMap edm -> panda and bwdMap panda -> edm
add(m, edm, panda, keepFirst) ==
  [fwdMap |-> mapInsert(m.fwdMap, edm, panda, keepFirst),
   bwdMap |-> mapInsert(m.bwdMap, panda, edm, keepFirst)]

NoLinks == [fwdMap |-> EmptyMap, bwdMap |-> EmptyMap]

\* The mapping loop from position iP on, for the electron map.
RECURSIVE eleEleLoop(_, _, _, _, _)
eleEleLoop(m, ptrList, originalIndices, iP, keepFirst) ==
  IF iP > Len(originalIndices) THEN m
  ELSE eleEleLoop(add(m, ptrList[originalIndex(originalIndices, iP)], iP, keepFirst),
                  ptrList, originalIndices, iP + 1, keepFirst)

\* The mapping loop from position iP on, for the supercluster map.
RECURSIVE scEleLoop(_, _, _, _, _, _)
scEleLoop(m, e, ptrList, originalIndices, iP, keepFirst) ==
  IF iP > Len(originalIndices) THEN m
  ELSE scEleLoop(add(m, e.electrons[ptrList[originalIndex(originalIndices, iP)]].sc,
                     iP, keepFirst),
                 e, ptrList, originalIndices, iP + 1, keepFirst)

\* resolvedSuperCluster keeping the input-side identity
resolvedSuperCluster_inputSide(links, superClusterMap, p) == links.bwdMap[p]

\* scMap.at(scPtr) for the record at position p
resolvedSuperCluster(links, superClusterMap, p) == superClusterMap[links.bwdMap[p]]

\* The supercluster pipeline's fwdMap: each input supercluster to the
\* position of its record in the output supercluster collection.
superClusterLinks(scs) ==
  [c \in Range(scs) |-> CHOOSE k \in 1..Len(scs) : scs[k] = c]

(* ------------------------------ actions -------------------------------- *)

Init ==
  /\ cfg \in Configs
  /\ ev = NoEvent
  /\ pc = "idle"
  /\ filled = {}
  /\ outElectrons = <<>>
  /\ eleEleMap = NoLinks
  /\ scEleMap = NoLinks
  /\ scMap = EmptyMap

\* The framework delivers the next event's collections.
BeginEvent ==
  /\ pc = "idle"
  /\ \E e \in EventInputs(cfg) : ev' = e
  /\ pc' = "fill"
  /\ UNCHANGED <<cfg, filled, outElectrons, eleEleMap, scEleMap, scMap>>

\* ElectronsFiller::fill
Fill ==
  /\ pc = "fill"
  /\ "electrons" \notin filled
  /\ LET r == fillLoop(cfg, ev, 1, outElectrons, <<>>)
     IN  IF r.thrown
         THEN /\ outElectrons' = r.out
              /\ pc' = "fillThrown"
              /\ UNCHANGED <<filled, eleEleMap, scEleMap>>
         ELSE \E keepFirst \in BOOLEAN :
                LET originalIndices == sortIndices(r.out)
                IN  /\ outElectrons' = sorted(r.out)
                    /\ eleEleMap' = eleEleLoop(eleEleMap, r.ptrList, originalIndices,
                                               1, keepFirst)
                    /\ scEleMap' = scEleLoop(scEleMap, ev, r.ptrList, originalIndices,
                                             1, keepFirst)
                    /\ filled' = filled \cup {"electrons"}
                    /\ pc' = pc
  /\ UNCHANGED <<cfg, ev, scMap>>

\* The supercluster pipeline's fill.
FillSuperClusters ==
  /\ pc = "fill"
  /\ "superClusters" \notin filled
  /\ scMap' = superClusterLinks(ev.superClusters)
  /\ filled' = filled \cup {"superClusters"}
  /\ UNCHANGED <<cfg, ev, pc, outElectrons, eleEleMap, scEleMap>>

\* ElectronsFiller::setRefs, called once every pipeline has filled.  The
\* links are visited in the map's iteration order; at() throws at the first
\* supercluster without an entry, after any of the resolvable records.
SetRefs ==
  /\ pc = "fill"
  /\ filled = {"electrons", "superClusters"}
  /\ LET links == DOMAIN scEleMap.bwdMap
         resolvable == {p \in links : scEleMap.bwdMap[p] \in DOMAIN scMap}
         rewrite(S) == [p \in 1..Len(outElectrons) |->
                          IF p \in S
                          THEN [outElectrons[p] EXCEPT !.superCluster =
                                  Some(resolvedSuperCluster(scEleMap, scMap, p))]
                          ELSE outElectrons[p]]
     IN  IF resolvable = links
         THEN /\ outElectrons' = rewrite(links)
              /\ pc' = "resolved"
         ELSE /\ \E S \in SUBSET resolvable : outElectrons' = rewrite(S)
              /\ pc' = "setRefsThrown"
  /\ UNCHANGED <<cfg, ev, filled, eleEleMap, scEleMap, scMap>>

\* The framework writes the event out and resets the per-event state.
EndEvent ==
  /\ pc = "resolved"
  /\ pc' = "idle"
  /\ ev' = NoEvent
  /\ filled' = {}
  /\ outElectrons' = <<>>
  /\ eleEleMap' = NoLinks
  /\ scEleMap' = NoLinks
  /\ scMap' = EmptyMap
  /\ UNCHANGED cfg

Next == BeginEvent \/ Fill \/ FillSuperClusters \/ SetRefs \/ EndEvent

Spec == Init /\ [][Next]_vars

(* ------------------------------ claims --------------------------------- *)

\* fill has returned normally for the event in flight
FillCompleted == "electrons" \in filled

Positions == 1..Len(outElectrons)

\* the input electron a record was created for
Origin(p) == ev.electrons[outElectrons[p].orig]

\* the selection as the contract words it
Wanted(el) ==
  el.pt >= cfg.cuts.minPt /\ Abs(el.eta) <= cfg.cuts.maxEta /\ el.veto = TRUE

\* C1: once fill has completed, each input candidate with pt >= minPt,
\* |eta| <= maxEta and a true veto flag has exactly one output record, and
\* every other candidate has none.
C1_Selection ==
  FillCompleted =>
    \A i \in 1..Len(ev.electrons) :
      Cardinality({p \in Positions : outElectrons[p].orig = i})
        = IF Wanted(ev.electrons[i]) THEN 1 ELSE 0

\* a completed fill that kept one candidate at the pt threshold and dropped
\* another
C1_Witness ==
  /\ FillCompleted
  /\ cfg.cuts.minPt = 50
  /\ \E p \in Positions : Origin(p).pt = 50
  /\ \E i \in 1..Len(ev.electrons) : ~Wanted(ev.electrons[i])

\* raw sum of the calorimeter-cluster channel of input electron i
RawEcal(i) == IF ev.electrons[i].isPat THEN ecalPFClusterIso(i) ELSE ecalIso(i)

RawHcal(i) == IF ev.electrons[i].isPat THEN hcalPFClusterIso(i) ELSE hcalIso(i)

\* |supercluster eta| of the electron behind position p
ScEta(p) == Abs(scEtaOf(Origin(p).sc))

\* the two calorimeter-cluster sums are corrected with the central density
CaloCorrected(p) ==
  LET i == outElectrons[p].orig
  IN  /\ outElectrons[p].ecaliso
           = Some(RawEcal(i) - getEffectiveArea(ecalIsoEA, ScEta(p)) * ev.rhoCentralCalo)
      /\ outElectrons[p].hcaliso
           = Some(RawHcal(i) - getEffectiveArea(hcalIsoEA, ScEta(p)) * ev.rhoCentralCalo)

\* C2 as stated: every stored sum is raw - area * density, the charged,
\* neutral-hadron and photon sums with the standard density, the ECAL and
\* HCAL sums with the central-calorimeter density.
C2_AllSumsCorrected ==
  FillCompleted =>
    \A p \in Positions :
      LET i == outElectrons[p].orig
          off == getEffectiveArea(combIsoEA, ScEta(p)) * ev.rho
      IN  /\ outElectrons[p].chiso = Some(sumChargedHadronPt(i) - off)
          /\ outElectrons[p].nhiso = Some(sumNeutralHadronEt(i) - off)
          /\ outElectrons[p].phoiso = Some(sumPhotonEt(i) - off)
          /\ CaloCorrected(p)

\* C2 amended: the ECAL and HCAL sums are raw - area * central density; the
\* charged, neutral-hadron and photon sums are stored raw, and the offset
\* area * standard density is stored apart, in isoPUOffset.
C2_CaloCorrectedPFRaw ==
  FillCompleted =>
    \A p \in Positions :
      LET i == outElectrons[p].orig
      IN  /\ outElectrons[p].chiso = Some(sumChargedHadronPt(i))
          /\ outElectrons[p].nhiso = Some(sumNeutralHadronEt(i))
          /\ outElectrons[p].phoiso = Some(sumPhotonEt(i))
          /\ outElectrons[p].isoPUOffset
               = Some(getEffectiveArea(combIsoEA, ScEta(p)) * ev.rho)
          /\ CaloCorrected(p)

\* records in both effective-area bins, from the native values and from the
\* side maps, with a non-zero offset
C2_Witness ==
  /\ FillCompleted
  /\ ev.rho # 0
  /\ \E p, q \in Positions :
       /\ Origin(p).isPat /\ ~Origin(q).isPat
       /\ ScEta(p) # ScEta(q)

\* photons on the supercluster of the electron behind position p
MatchingPhotons(p) == {j \in 1..Len(ev.photons) : ev.photons[j].sc = Origin(p).sc}

\* the three corrected sums of photon j, by the photon tables
PhotonSums(p, j) ==
  <<Some(phCHIso(j) - getEffectiveArea(phCHIsoEA, ScEta(p)) * ev.rho),
    Some(phNHIso(j) - getEffectiveArea(phNHIsoEA, ScEta(p)) * ev.rho),
    Some(phPhIso(j) - getEffectiveArea(phPhIsoEA, ScEta(p)) * ev.rho)>>

\* C3: a record whose electron shares its supercluster with some photon
\* carries the corrected sums of the last such photon, never those of a
\* photon on another supercluster.
C3_LastMatchingPhoton ==
  FillCompleted =>
    \A p \in Positions :
      MatchingPhotons(p) # {} =>
        LET last == CHOOSE j \in MatchingPhotons(p) : \A k \in MatchingPhotons(p) : k <= j
        IN  <<outElectrons[p].chisoPh, outElectrons[p].nhisoPh, outElectrons[p].phisoPh>>
              = PhotonSums(p, last)

\* C4: the output is ordered by non-increasing pt, equal pt keeps the input
\* order, and inputs A(50), B(80), C(veto false) give [B, A].
C4_StableRanking ==
  FillCompleted =>
    /\ \A p, q \in Positions :
         p < q =>
           /\ outElectrons[p].pt[1] >= outElectrons[q].pt[1]
           /\ outElectrons[p].pt[1] = outElectrons[q].pt[1]
                => outElectrons[p].orig < outElectrons[q].orig
    /\ ( /\ Len(ev.electrons) = 3
         /\ [i \in 1..3 |-> ev.electrons[i].pt] = <<50, 80, 30>>
         /\ [i \in 1..3 |-> ev.electrons[i].veto] = <<TRUE, TRUE, FALSE>>
         /\ cfg.cuts = DefaultConfig.cuts )
       => [p \in Positions |-> outElectrons[p].orig] = <<2, 1>>

\* a ranked output with a pt tie behind a record the sort moved forward
C4_Witness ==
  /\ FillCompleted
  /\ \E p, q \in Positions : p < q /\ outElectrons[p].orig > outElectrons[q].orig
  /\ \E p, q \in Positions : p < q /\ outElectrons[p].pt = outElectrons[q].pt

\* m links identities and positions one to one, over exactly the positions
\* of the output
Bijection(m) ==
  /\ DOMAIN m.bwdMap = Positions
  /\ Range(m.fwdMap) = Positions
  /\ \A k \in DOMAIN m.fwdMap : m.bwdMap[m.fwdMap[k]] = k
  /\ \A p \in DOMAIN m.bwdMap : m.bwdMap[p] \in DOMAIN m.fwdMap /\ m.fwdMap[m.bwdMap[p]] = p

\* C5: after fill, in any event of a run, the candidate and the cluster map
\* are exact bijections over the records of that event.
C5_MapsAreBijections ==
  FillCompleted => Bijection(eleEleMap) /\ Bijection(scEleMap)

\* C6: once setRefs has run, after both pipelines' fills, every record's
\* cluster reference is the supercluster pipeline's record of the cluster of
\* the record's electron, and before that no record has a reference set.
C6_RefsResolved ==
  /\ pc = "resolved" =>
       \A p \in Positions :
         /\ Origin(p).sc \in Range(ev.superClusters)
         /\ outElectrons[p].superCluster = Some(superClusterLinks(ev.superClusters)[Origin(p).sc])
  /\ (\E p \in Positions : outElectrons[p].superCluster # None)
       => filled = {"electrons", "superClusters"}

\* resolved records on two clusters, one of them at an output position that
\* differs from its input identity, in an order the sort changed
C6_Witness ==
  /\ pc = "resolved"
  /\ \E p, q \in Positions :
       /\ p < q /\ outElectrons[p].orig > outElectrons[q].orig
       /\ Origin(p).sc # Origin(q).sc
  /\ \E p \in Positions : outElectrons[p].superCluster # Some(Origin(p).sc)

\* C7: with trigger usage enabled, flag iF of a record is true exactly when
\* some trigger object of category iF lies within angular separation < 0.3 of
\* the record's electron; a single trigger object within 0.2 sets exactly the
\* flags of its own categories.
C7_TriggerMatch ==
  (cfg.useTrigger /\ FillCompleted) =>
    \A p \in Positions :
      /\ \A iF \in 1..nElectronHLTObjects :
           outElectrons[p].matchHLT[iF]
             <=> \E k \in 1..Len(ev.triggerObjects) :
                   /\ iF \in ev.triggerObjects[k].labels
                   /\ deltaR2(Origin(p), ev.triggerObjects[k]) < 900
      /\ (Len(ev.triggerObjects) = 1 /\ deltaR2(Origin(p), ev.triggerObjects[1]) <= 400)
           => outElectrons[p].matchHLT
                = [iF \in 1..nElectronHLTObjects |-> iF \in ev.triggerObjects[1].labels]

\* a record matched in category 1 and not in category 2, with a category-2
\* object at separation exactly 0.3
C7_Witness ==
  /\ cfg.useTrigger /\ FillCompleted
  /\ \E p \in Positions :
       /\ outElectrons[p].matchHLT[1] /\ ~outElectrons[p].matchHLT[2]
       /\ \E k \in 1..Len(ev.triggerObjects) :
            /\ 2 \in ev.triggerObjects[k].labels
            /\ deltaR2(Origin(p), ev.triggerObjects[k]) = 900

\* some selected candidate has neither a native calorimeter-cluster isolation
\* nor both side maps
CaloSourceMissing ==
  \E i \in 1..Len(ev.electrons) :
    /\ Wanted(ev.electrons[i])
    /\ ~ev.electrons[i].isPat
    /\ ~(cfg.ecalIsoToken /\ cfg.hcalIsoToken)

\* C8: fill raises the fatal error exactly when a selected candidate has
\* neither a native calorimeter-cluster isolation nor both side maps, and a
\* fill that completes leaves no record with an unwritten ECAL or HCAL sum.
C8_MissingCaloIsoIsFatal ==
  (pc = "fillThrown" \/ FillCompleted) =>
    /\ (pc = "fillThrown") <=> CaloSourceMissing
    /\ FillCompleted =>
         \A p \in Positions :
           outElectrons[p].ecaliso # None /\ outElectrons[p].hcaliso # None

\* the error raised for the missing HCAL map, behind a record filled from
\* native values
C8_Witness ==
  /\ pc = "fillThrown"
  /\ cfg.ecalIsoToken /\ ~cfg.hcalIsoToken
  /\ Len(outElectrons) >= 2

\* C9: after fill, the candidate map links each final position with the
\* input electron its record was filled from, in both directions, and the
\* cluster map links the position with that electron's supercluster.
C9_MapsFollowRanking ==
  FillCompleted =>
    \A p \in Positions :
      /\ p \in DOMAIN eleEleMap.bwdMap
      /\ eleEleMap.bwdMap[p] = outElectrons[p].orig
      /\ outElectrons[p].orig \in DOMAIN eleEleMap.fwdMap
      /\ eleEleMap.fwdMap[outElectrons[p].orig] = p
      /\ p \in DOMAIN scEleMap.bwdMap
      /\ scEleMap.bwdMap[p] = Origin(p).sc

\* maps built for an output the sort reordered, over two superclusters
C9_Witness ==
  /\ FillCompleted
  /\ pc = "fill"
  /\ \E p, q \in Positions :
       /\ p < q /\ outElectrons[p].orig > outElectrons[q].orig
       /\ Origin(p).sc # Origin(q).sc

\* every step of the loop body has written the record
Populated(rec) == rec.ecaliso # None /\ rec.hcaliso # None

\* C10 as stated: after a fatal error in fill the output collection holds no
\* partially populated record, and after one in setRefs the references are
\* rewritten for all records or for none.
C10_NoPartialState ==
  /\ pc = "fillThrown" => \A p \in Positions : Populated(outElectrons[p])
  /\ pc = "setRefsThrown" =>
       \/ \A p \in Positions : outElectrons[p].superCluster # None
       \/ \A p \in Positions : outElectrons[p].superCluster = None

\* C10 amended: a fatal error in fill leaves the records completed before
\* it and, last, the failing candidate's record without its HCAL sum (and
\* without its ECAL sum when the ECAL map is the missing one), records no
\* map entry and rewrites no reference; a fatal error in setRefs leaves a
\* record whose supercluster has no entry unresolved, and every reference
\* already rewritten is the right one.
C10_AbortKeepsPartialState ==
  /\ pc = "fillThrown" =>
       /\ Len(outElectrons) >= 1
       /\ LET last == outElectrons[Len(outElectrons)]
          IN  /\ last.hcaliso = None
              /\ (last.ecaliso # None) <=> cfg.ecalIsoToken
              /\ last.chisoPh = None
       /\ \A p \in 1..(Len(outElectrons) - 1) : Populated(outElectrons[p])
       /\ \A p \in Positions : outElectrons[p].superCluster = None
       /\ eleEleMap = NoLinks /\ scEleMap = NoLinks
       /\ ~FillCompleted
  /\ pc = "setRefsThrown" =>
       /\ \E p \in Positions :
            /\ outElectrons[p].superCluster = None
            /\ Origin(p).sc \notin Range(ev.superClusters)
       /\ \A p \in Positions :
            outElectrons[p].superCluster # None
              => outElectrons[p].superCluster = Some(scMap[Origin(p).sc])

\* setRefs stopped after rewriting one record and before another
C10_Witness ==
  /\ pc = "setRefsThrown"
  /\ \E p, q \in Positions :
       outElectrons[p].superCluster # None /\ outElectrons[q].superCluster = None

====
